---- MODULE Spec2Model ----
(***************************************************************************)
(* Model of src/app.py: the KOSPI200 recommendation pipeline.              *)
(*                                                                         *)
(*   get_access_token / get_stock_price   one quote from the provider      *)
(*   get_real_time_stock_data             the batch over KOSPI200_CODES,   *)
(*                                        or the sample dataset            *)
(*   st.cache_data(ttl=300)               on get_stock_price AND on        *)
(*                                        get_real_time_stock_data         *)
(*   calculate_stock_score                the six-rule additive score      *)
(*   main                                 credentials, refresh button,     *)
(*                                        sort + slice, summary; one run   *)
(*                                        per browser session, the stores  *)
(*                                        shared by all sessions           *)
(*                                                                         *)
(* Units.  Percent change is kept in hundredths of a percent (2.5% = 250), *)
(* scores in tenths of a point (1.5 points = 15), time in seconds.         *)
(***************************************************************************)
EXTENDS Integers, Sequences, FiniteSets, TLC

VARIABLES
    \* ---- the cache machine (Spec) ----
    price_cache,    \* st.cache_data store of get_stock_price, by (key, secret, code)
    data_cache,     \* st.cache_data store of get_real_time_stock_data, by its arguments
    \* ---- per session: main's analysis run ----
    pc,             \* "idle" | "datawait" | "loop" | "pricewait" | "fetching" |
                    \* "returned": where the run is
    args,           \* arguments of the running get_real_time_stock_data call
    i,              \* 1-based position of the batch loop in KOSPI200_CODES
    stocks,         \* the list the batch loop appends to
    returned,       \* stocks_df: what the call handed back to main
    dataGone,       \* the store the running get_real_time_stock_data call
                    \* looked into was discarded by a refresh
    priceGone,      \* the same for the running get_stock_price call
    slot,           \* what a waiting call will find under its key in the
                    \* discarded store it looked into
    error,          \* exception raised by a ranking section, or "none"
    \* ---- history of the stores, for the properties ----
    window,         \* per arguments: the earliest computed result (with its
                    \* age) whose validity window is open and that no refresh
                    \* followed
    invalidated,    \* a stored result for the live arguments was invalidated
                    \* (expired or cleared) and no call with them has looked
                    \* into the store since
    \* ---- history of the running call of session "mine" ----
    netCalls,       \* whether the call issued an HTTP request
    remembered,     \* whether a loop iteration was answered by a stored failure
    afterInval,     \* invalidated, as the call found it when it looked into the
                    \* store: it is the first one after
    via,            \* how the call got its result: "cache" | "batch" | "sample"
    \* ---- the pure-function harnesses (FetchSpec, ScoreSpec, RankSpec) ----
    fn,             \* which harness step has run
    input,          \* the drawn input
    output          \* the value the function returned

vars == <<price_cache, data_cache, pc, args, i, stocks, returned, dataGone,
          priceGone, slot, error,
          netCalls, remembered, window, invalidated,
          afterInval, via, fn, input, output>>

cacheVars == <<price_cache, data_cache, pc, args, i, stocks, returned,
               dataGone, priceGone, slot, error,
               netCalls, remembered, window, invalidated,
               afterInval, via>>

historyVars == <<netCalls, remembered, afterInval, via>>

harnessVars == <<fn, input, output>>

(***************************************************************************)
(* Bounds of the model.                                                    *)
(***************************************************************************)
\* How many codes of KOSPI200_CODES the batch loop walks in the model.
UniverseLen == 2
\* Seconds by which one Tick advances the clock.
TickStep == 300
\* Longest list of scored instruments the ranking harness draws.
MaxListLen == 3
\* Largest requested count the ranking harness draws (the slider goes to 20).
MaxTopN == 4

(***************************************************************************)
(* Program constants.                                                      *)
(***************************************************************************)
StockPriceTTL == 300
StockDataTTL == 300
\* The validity window the properties speak of.
ValidityWindow == 300
MarketCapUnit == 100000000

AllCodes ==
    << "005930", "000660", "035720", "005380", "051910",
       "035420", "006400", "068270", "207940", "005490",
       "012330", "028260", "066570", "003670", "096770",
       "000270", "017670", "034730", "018260", "032830" >>

Min(a, b) == IF a < b THEN a ELSE b

KOSPI200_CODES == SubSeq(AllCodes, 1, Min(UniverseLen, Len(AllCodes)))

\* Python's None.
None == [none |-> TRUE]

\* A JSON value or Python string, tagged with its kind (the kinds are listed
\* with the provider responses below).
J(t, v) == [t |-> t, v |-> v]

Snapshot(code, name, price, change, volume, cap, origin) ==
    [code |-> code, name |-> name, price |-> price, change |-> change,
     volume |-> volume, market_cap |-> cap, origin |-> origin]

\* The sample dataset of get_real_time_stock_data, in order (names are
\* romanised).  origin is a history tag: which branch built the element.
SampleData ==
    << Snapshot("005930", J("str_name", "Samsung Electronics"), 71000, 250, 15000000, 423000000, "sample"),
       Snapshot("000660", J("str_name", "SK hynix"), 135000, 320, 5000000, 98000000, "sample"),
       Snapshot("035720", J("str_name", "Kakao"), 52000, -150, 8000000, 23000000, "sample"),
       Snapshot("005380", J("str_name", "Hyundai Motor"), 195000, 180, 2000000, 41000000, "sample"),
       Snapshot("051910", J("str_name", "LG Chem"), 425000, 210, 1500000, 30000000, "sample"),
       Snapshot("035420", J("str_name", "NAVER"), 215000, -50, 3000000, 35000000, "sample"),
       Snapshot("006400", J("str_name", "Samsung SDI"), 478000, 420, 800000, 33000000, "sample"),
       Snapshot("068270", J("str_name", "Celltrion"), 168000, 150, 4000000, 22000000, "sample"),
       Snapshot("207940", J("str_name", "Samsung Biologics"), 825000, 80, 250000, 59000000, "sample"),
       Snapshot("005490", J("str_name", "POSCO Holdings"), 385000, 280, 900000, 32000000, "sample") >>

(***************************************************************************)
(* Provider responses.  A JSON value is a tagged record:                   *)
(*   missing   the key is not in the object                                *)
(*   null      JSON null                                                   *)
(*   str_int   a string holding a decimal integer, v the integer           *)
(*   str_dec   a string holding a decimal with a fraction, v in hundredths *)
(*   str_junk  a string that is no number                                  *)
(*   num_int   a JSON integer, v the integer                               *)
(*   num_dec   a JSON number with a fraction, v in hundredths              *)
(*   str_name  an ordinary string, used for names                          *)
(***************************************************************************)
Missing == J("missing", 0)

\* Python's int(x): [ok, v].  A string with a fraction raises ValueError,
\* None raises TypeError, a float is truncated towards zero.
PyInt(x) ==
    CASE x.t \in {"str_int", "num_int"} -> [ok |-> TRUE, v |-> x.v]
      [] x.t = "num_dec" ->
            [ok |-> TRUE,
             v |-> IF x.v >= 0 THEN x.v \div 100 ELSE -((-x.v) \div 100)]
      [] OTHER -> [ok |-> FALSE, v |-> 0]

\* Python's float(x), in hundredths: [ok, v].
PyFloat(x) ==
    CASE x.t \in {"str_int", "num_int"} -> [ok |-> TRUE, v |-> x.v * 100]
      [] x.t \in {"str_dec", "num_dec"} -> [ok |-> TRUE, v |-> x.v]
      [] OTHER -> [ok |-> FALSE, v |-> 0]

\* A token-endpoint exchange: requests.post raised, or answered with a status
\* and a body whose access_token is Missing or a string ("" is the empty one).
TokenResponse(raised, status, token) ==
    [raised |-> raised, status |-> status, access_token |-> token]

\* get_access_token: the token string, or None.
get_access_token(resp) ==
    IF resp.raised THEN None
    ELSE IF resp.status = 200
         THEN IF resp.access_token = Missing THEN None   \* KeyError, caught
              ELSE [none |-> FALSE, token |-> resp.access_token.v]
         ELSE None

\* Python's "not access_token": None or the empty string.
NotToken(tok) == tok = None \/ tok.token = ""

\* The 'output' object of a quote response.
Payload(name, price, change, volume, cap) ==
    [hts_kor_isnm |-> name, stck_prpr |-> price, prdy_ctrt |-> change,
     acml_vol |-> volume, hts_avls |-> cap]

\* A quote-endpoint exchange: requests.get raised, or a status and a body:
\* "not_json" (response.json() raises), "no_output" (KeyError), or "output".
QuoteResponse(raised, status, body, out) ==
    [raised |-> raised, status |-> status, body |-> body, output |-> out]

\* data.get('hts_avls', 0)
GetAvls(data) == IF data.hts_avls = Missing THEN J("num_int", 0) ELSE data.hts_avls

get_stock_price_StrictCap(stock_code, token_resp, resp) ==
    LET access_token == get_access_token(token_resp) IN
    IF NotToken(access_token) THEN None
    ELSE IF resp.raised THEN None
    ELSE IF resp.status # 200 THEN None
    ELSE IF resp.body # "output" THEN None
    ELSE LET data == resp.output
             price == PyInt(data.stck_prpr)
             change == PyFloat(data.prdy_ctrt)
             volume == PyInt(data.acml_vol)
             cap == PyInt(data.hts_avls)
         IN IF data.hts_kor_isnm = Missing THEN None
            ELSE IF ~price.ok \/ ~change.ok \/ ~volume.ok \/ ~cap.ok THEN None
            ELSE Snapshot(stock_code, data.hts_kor_isnm, price.v, change.v,
                          volume.v, cap.v \div MarketCapUnit, "live")

\* get_stock_price's body: the snapshot, or None.  Every exception inside the
\* try block (KeyError, ValueError, TypeError, a raising request) gives None.
get_stock_price(stock_code, token_resp, resp) ==
    LET access_token == get_access_token(token_resp) IN
    IF NotToken(access_token) THEN None
    ELSE IF resp.raised THEN None
    ELSE IF resp.status # 200 THEN None
    ELSE IF resp.body # "output" THEN None
    ELSE LET data == resp.output
             price == PyInt(data.stck_prpr)
             change == PyFloat(data.prdy_ctrt)
             volume == PyInt(data.acml_vol)
             cap == PyInt(GetAvls(data))
         IN IF data.hts_kor_isnm = Missing THEN None
            ELSE IF ~price.ok \/ ~change.ok \/ ~volume.ok \/ ~cap.ok THEN None
            ELSE Snapshot(stock_code, data.hts_kor_isnm, price.v, change.v,
                          volume.v, cap.v \div MarketCapUnit, "live")

\* HTTP requests one execution of get_stock_price's body issues: the token
\* POST always, the quote GET only with a token.
RequestsIssued(token_resp) ==
    IF NotToken(get_access_token(token_resp)) THEN 1 ELSE 2

(***************************************************************************)
(* st.cache_data: a store maps a key to <<>> (nothing stored) or to one    *)
(* entry <<[value, age]>>.  An entry answers a call while age < ttl.       *)
(***************************************************************************)
Entry(v, a) == << [value |-> v, age |-> a] >>

CacheHit(cache, key, ttl) == cache[key] # <<>> /\ cache[key][1].age < ttl

\* The store after dt seconds: entries age; one that reached its ttl can
\* never answer again and is dropped.
Aged(cache, ttl, dt) ==
    [k \in DOMAIN cache |->
        IF cache[k] = <<>> THEN <<>>
        ELSE IF cache[k][1].age + dt >= ttl THEN <<>>
        ELSE Entry(cache[k][1].value, cache[k][1].age + dt)]

\* What main's sidebar can hold: (APP KEY, APP SECRET), "" for an empty box
\* (both boxes are empty until the user types).  The three contents with an
\* empty box all make main pass use_real_api = False; each of them is a key
\* of its own in the store of get_real_time_stock_data.
Credentials == {<<"K", "S">>, <<"", "">>, <<"K", "">>, <<"", "S">>}

\* main: without both credentials the checkbox is overridden to False.
main_use_real_api(app_key, app_secret, checkbox) ==
    IF app_key # "" /\ app_secret # "" THEN checkbox ELSE FALSE

\* get_real_time_stock_data: "if use_real_api and app_key and app_secret".
LiveBranch(a) == a[3] /\ a[1] # "" /\ a[2] # ""

\* The store keys main's calls can produce: the three arguments of
\* get_real_time_stock_data, and (key, secret, code) of the get_stock_price
\* calls its live branch makes.
DataKeys ==
    {<<c[1], c[2], main_use_real_api(c[1], c[2], u)>> :
        c \in Credentials, u \in BOOLEAN}
PriceKeys ==
    {<<a[1], a[2], KOSPI200_CODES[n]>> :
        a \in {d \in DataKeys : LiveBranch(d)}, n \in 1..Len(KOSPI200_CODES)}

EmptyDataCache == [k \in DataKeys |-> <<>>]
EmptyPriceCache == [k \in PriceKeys |-> <<>>]

\* The only arguments main can pass that take the live branch.
LiveArgs == <<"K", "S", TRUE>>

\* The end of get_real_time_stock_data: the batch's list when it is not
\* empty, else the sample dataset.
BatchResult_NoFallback(list) == list

BatchResult_Padded(list) ==
    IF Len(list) >= Len(KOSPI200_CODES) THEN list
    ELSE list \o SubSeq(SampleData, Len(list) + 1, Len(KOSPI200_CODES))

BatchResult(list) == IF list # <<>> THEN list ELSE SampleData

\* Key of get_real_time_stock_data's store: all three arguments.
DataKey(a) == a

\* Key of get_stock_price's store: all three arguments.
PriceKey(a, code) == <<a[1], a[2], code>>

\* st.cache_data.clear() leaves an empty store for every cached function.
ClearPriceCache(cache) == EmptyPriceCache

ClearDataCache(cache) == EmptyDataCache

StoredData_Dropped(result) == <<>>

\* What st.cache_data keeps of a value get_real_time_stock_data returned.
StoredData(result) == Entry(result, 0)

\* Whether a stored failure (None) is kept by get_stock_price's store.
\* st.cache_data stores whatever the function returned.
StoredPrice(result) == Entry(result, 0)

(***************************************************************************)
(* Provider behaviour drawn by the batch loop.                             *)
(***************************************************************************)
TokenOk == TokenResponse(FALSE, 200, J("str", "T"))
TokenRejected == TokenResponse(FALSE, 401, Missing)
BatchTokenResponses == {TokenOk, TokenRejected}

NoPayload == Payload(Missing, Missing, Missing, Missing, Missing)
QuoteA ==
    QuoteResponse(FALSE, 200, "output",
        Payload(J("str_name", "A"), J("str_int", 71000), J("str_dec", 250),
                J("str_int", 15000000), J("str_int", 2130000000)))
QuoteServerError == QuoteResponse(FALSE, 500, "not_json", NoPayload)
BatchQuoteResponses == {QuoteA, QuoteServerError}

(***************************************************************************)
(* The cache machine.  Every browser session runs main in a thread of its  *)
(* own; the two stores are shared by all of them.  st.cache_data computes  *)
(* a missing value under a lock of its own, one per key of a store: a call *)
(* that misses takes the key's lock, looks again, and only then runs the   *)
(* body and stores; a call for the same key waits meanwhile.               *)
(* st.cache_data.clear() discards the stores and puts empty ones in their  *)
(* place: a call that was running keeps the discarded store it looked      *)
(* into, reads it again after a wait, and what it stores goes there.       *)
(* Every new call looks into the current store of its function.            *)
(* Spec is the program with the validity windows of its results;           *)
(* HistorySpec also records invalidations and, of the calls of one         *)
(* session, "mine", the requests, the remembered failures and how each     *)
(* call got its result.                                                    *)
(***************************************************************************)
\* The browser sessions connected to the server.  With two of them a refresh
\* finds a call waiting for a lock only after the lock was released (the
\* session that held it is the one pressing the button), and a discarded
\* store is kept by one session at most.
Sessions == {"mine", "other"}

\* What the sidebar of session s can hold: the same in every session.
Sidebar(s) == Credentials

\* Whether history is recorded, and whether session s is the one followed.
Recording == fn = "observed"
Observed(s) == Recording /\ s = "mine"

\* The observed session has no call running.
NoHistory ==
    /\ netCalls = FALSE
    /\ remembered = FALSE
    /\ afterInval = FALSE
    /\ via = "none"

\* No analysis run is in progress and nothing is stored.
CacheIdle ==
    /\ price_cache = EmptyPriceCache
    /\ data_cache = EmptyDataCache
    /\ pc = [s \in Sessions |-> "idle"]
    /\ args = [s \in Sessions |-> <<"", "", FALSE>>]
    /\ i = [s \in Sessions |-> 1]
    /\ stocks = [s \in Sessions |-> <<>>]
    /\ returned = [s \in Sessions |-> <<>>]
    /\ dataGone = [s \in Sessions |-> FALSE]
    /\ priceGone = [s \in Sessions |-> FALSE]
    /\ slot = [s \in Sessions |-> <<>>]
    /\ error = "none"
    /\ window = EmptyDataCache
    /\ invalidated = FALSE
    /\ NoHistory

Init ==
    /\ CacheIdle
    /\ fn = "off"
    /\ input = <<>>
    /\ output = <<>>

\* The observed session's call is over.
HistoryOver ==
    /\ netCalls' = FALSE
    /\ remembered' = FALSE
    /\ afterInval' = FALSE
    /\ via' = "none"

\* The script run of session s has ended: its locals are gone.
RunOver(s) ==
    /\ pc' = [pc EXCEPT ![s] = "idle"]
    /\ args' = [args EXCEPT ![s] = <<"", "", FALSE>>]
    /\ i' = [i EXCEPT ![s] = 1]
    /\ stocks' = [stocks EXCEPT ![s] = <<>>]
    /\ returned' = [returned EXCEPT ![s] = <<>>]
    /\ dataGone' = [dataGone EXCEPT ![s] = FALSE]
    /\ priceGone' = [priceGone EXCEPT ![s] = FALSE]
    /\ slot' = [slot EXCEPT ![s] = <<>>]
    /\ IF Observed(s) THEN HistoryOver ELSE UNCHANGED historyVars

\* Session s is inside the body of get_real_time_stock_data.
InBody(s) == pc[s] \in {"loop", "pricewait", "fetching"}

\* Another session computes the value of key k of the current store of
\* get_real_time_stock_data: it holds the key's lock.
DataLockHeld(s, k) ==
    \E o \in Sessions \ {s} :
        InBody(o) /\ ~dataGone[o] /\ DataKey(args[o]) = k

\* The same for get_stock_price: the lock is held while the body runs.
PriceLockHeld(s, k) ==
    \E o \in Sessions \ {s} :
        /\ pc[o] = "fetching"
        /\ ~priceGone[o]
        /\ PriceKey(args[o], KOSPI200_CODES[i[o]]) = k

\* The validity windows after dt seconds.  w keeps, per arguments, the
\* earliest computed result whose window is open; when that window closes
\* the result still stored (computed later) takes its place.
AgedWindow(w, cache, dt) ==
    [k \in DOMAIN w |->
        IF Aged(w, ValidityWindow, dt)[k] # <<>>
        THEN Aged(w, ValidityWindow, dt)[k]
        ELSE Aged(cache, ValidityWindow, dt)[k]]

\* A computed result joins the windows: an earlier one that is open stays.
Opened(w, a, result) ==
    IF w[a] = <<>> THEN [w EXCEPT ![a] = Entry(result, 0)] ELSE w

\* main, the analysis button pressed in session s: the sidebar's values, then
\* the call of get_real_time_stock_data.  A stored result answers it at once.
\* Otherwise the call takes the lock of its key, or waits for it when another
\* session computes the same key; with the lock the body runs: the batch
\* loop starts, or the sample dataset is returned and stored.
Analyze(s, app_key, app_secret, checkbox) ==
    LET a == <<app_key, app_secret, main_use_real_api(app_key, app_secret, checkbox)>>
        k == DataKey(a)
        hit == CacheHit(data_cache, k, StockDataTTL)
    IN
    /\ pc[s] = "idle"
    /\ args' = [args EXCEPT ![s] = a]
    /\ i' = [i EXCEPT ![s] = 1]
    /\ stocks' = [stocks EXCEPT ![s] = <<>>]
    /\ IF hit
       THEN /\ returned' = [returned EXCEPT ![s] = data_cache[k][1].value]
            /\ pc' = [pc EXCEPT ![s] = "returned"]
            /\ UNCHANGED <<data_cache, window>>
       ELSE IF DataLockHeld(s, k)
       THEN /\ pc' = [pc EXCEPT ![s] = "datawait"]
            /\ UNCHANGED <<returned, data_cache, window>>
       ELSE IF LiveBranch(a)
       THEN /\ pc' = [pc EXCEPT ![s] = "loop"]
            /\ UNCHANGED <<returned, data_cache, window>>
       ELSE /\ returned' = [returned EXCEPT ![s] = SampleData]
            /\ data_cache' = [data_cache EXCEPT ![k] = StoredData(SampleData)]
            /\ window' = Opened(window, a, SampleData)
            /\ pc' = [pc EXCEPT ![s] = "returned"]
    /\ invalidated' = (a # LiveArgs /\ invalidated)
    /\ IF Observed(s)
       THEN /\ netCalls' = FALSE
            /\ remembered' = FALSE
            /\ afterInval' = (a = LiveArgs /\ invalidated)
            /\ via' = IF DataLockHeld(s, k) THEN "none"
                      ELSE IF hit THEN "cache"
                      ELSE IF LiveBranch(a) THEN "batch" ELSE "sample"
       ELSE UNCHANGED historyVars
    /\ UNCHANGED <<price_cache, dataGone, priceGone, slot, error, harnessVars>>

\* The lock session s waited for is free: the call takes it and looks again
\* into the store it looked into before.  What the other session stored
\* answers it; when that session was stopped, or its result has expired, the
\* batch loop starts.
DataAcquire(s) ==
    LET k == DataKey(args[s])
        found == IF dataGone[s] THEN slot[s] ELSE data_cache[k]
        hit == found # <<>> /\ found[1].age < StockDataTTL
    IN
    /\ pc[s] = "datawait"
    /\ dataGone[s] \/ ~DataLockHeld(s, k)
    /\ IF hit
       THEN /\ returned' = [returned EXCEPT ![s] = found[1].value]
            /\ pc' = [pc EXCEPT ![s] = "returned"]
            /\ dataGone' = [dataGone EXCEPT ![s] = FALSE]
       ELSE /\ pc' = [pc EXCEPT ![s] = "loop"]
            /\ UNCHANGED <<returned, dataGone>>
    /\ slot' = [slot EXCEPT ![s] = <<>>]
    /\ via' = IF Observed(s) THEN (IF hit THEN "cache" ELSE "batch") ELSE via
    /\ invalidated' = (invalidated /\ (dataGone[s] \/ args[s] # LiveArgs))
    /\ afterInval' = IF Observed(s)
                     THEN (afterInval \/ (invalidated /\ invalidated' = FALSE))
                     ELSE afterInval
    /\ UNCHANGED <<price_cache, data_cache, args, i, stocks, priceGone,
                   error, window, netCalls, remembered, harnessVars>>

\* One iteration of the batch loop whose get_stock_price call is answered by
\* the store: the body does not run, no request is issued.
FetchCached(s) ==
    LET k == PriceKey(args[s], KOSPI200_CODES[i[s]]) IN
    /\ pc[s] = "loop"
    /\ i[s] <= Len(KOSPI200_CODES)
    /\ CacheHit(price_cache, k, StockPriceTTL)
    /\ LET stock_data == price_cache[k][1].value IN
        /\ stocks' = [stocks EXCEPT ![s] =
                        IF stock_data # None THEN Append(@, stock_data) ELSE @]
        /\ remembered' = IF Observed(s)
                         THEN (remembered \/ stock_data = None)
                         ELSE remembered
    /\ i' = [i EXCEPT ![s] = @ + 1]
    /\ UNCHANGED <<price_cache, data_cache, pc, args, returned, dataGone,
                   priceGone, slot, error, netCalls, window, invalidated,
                   afterInval, via, harnessVars>>

\* One iteration whose get_stock_price call finds nothing in the store: the
\* call takes the lock of its key and the body starts and waits for the
\* provider (requests.post, then requests.get); or it waits for the lock
\* when another session's body runs for the same key.
FetchMiss(s) ==
    LET k == PriceKey(args[s], KOSPI200_CODES[i[s]]) IN
    /\ pc[s] = "loop"
    /\ i[s] <= Len(KOSPI200_CODES)
    /\ ~CacheHit(price_cache, k, StockPriceTTL)
    /\ pc' = [pc EXCEPT ![s] = IF PriceLockHeld(s, k) THEN "pricewait" ELSE "fetching"]
    /\ UNCHANGED <<price_cache, data_cache, args, i, stocks, returned, dataGone,
                   priceGone, slot, error, window, invalidated, historyVars,
                   harnessVars>>

\* The lock session s waited for is free: the call takes it and looks again
\* into the store it looked into before.  What the other session stored
\* answers it; when that session stored nothing (it was stopped) or the entry
\* has expired, the body starts.
PriceAcquire(s) ==
    LET k == PriceKey(args[s], KOSPI200_CODES[i[s]])
        found == IF priceGone[s] THEN slot[s] ELSE price_cache[k]
        hit == found # <<>> /\ found[1].age < StockPriceTTL
    IN
    /\ pc[s] = "pricewait"
    /\ priceGone[s] \/ ~PriceLockHeld(s, k)
    /\ IF hit
       THEN LET stock_data == found[1].value IN
            /\ stocks' = [stocks EXCEPT ![s] =
                            IF stock_data # None THEN Append(@, stock_data) ELSE @]
            /\ remembered' = IF Observed(s)
                             THEN (remembered \/ stock_data = None)
                             ELSE remembered
            /\ i' = [i EXCEPT ![s] = @ + 1]
            /\ pc' = [pc EXCEPT ![s] = "loop"]
            /\ priceGone' = [priceGone EXCEPT ![s] = FALSE]
       ELSE /\ pc' = [pc EXCEPT ![s] = "fetching"]
            /\ UNCHANGED <<stocks, remembered, i, priceGone>>
    /\ slot' = [slot EXCEPT ![s] = <<>>]
    /\ UNCHANGED <<price_cache, data_cache, args, returned, dataGone,
                   error, netCalls, window, invalidated, afterInval, via,
                   harnessVars>>

\* The provider answered: the body of get_stock_price returns, st.cache_data
\* stores what it returned into the store the call looked into (a discarded
\* one when a refresh came meanwhile), and the loop appends a snapshot.
FetchLive(s, token_resp, resp) ==
    LET k == PriceKey(args[s], KOSPI200_CODES[i[s]]) IN
    /\ pc[s] = "fetching"
    /\ LET stock_data == get_stock_price(KOSPI200_CODES[i[s]], token_resp, resp) IN
        /\ price_cache' = IF priceGone[s] THEN price_cache
                          ELSE [price_cache EXCEPT ![k] = StoredPrice(stock_data)]
        /\ stocks' = [stocks EXCEPT ![s] =
                        IF stock_data # None THEN Append(@, stock_data) ELSE @]
    /\ netCalls' = IF Observed(s) THEN (netCalls \/ RequestsIssued(token_resp) > 0)
                   ELSE netCalls
    /\ i' = [i EXCEPT ![s] = @ + 1]
    /\ pc' = [pc EXCEPT ![s] = "loop"]
    /\ priceGone' = [priceGone EXCEPT ![s] = FALSE]
    /\ UNCHANGED <<data_cache, args, returned, dataGone, slot, error, remembered,
                   window, invalidated, afterInval, via, harnessVars>>

\* The loop is over: return the list or the sample dataset; st.cache_data
\* stores the returned value under the call's arguments, into the store the
\* call looked into (a discarded one when a refresh came meanwhile).
Finish(s) ==
    /\ pc[s] = "loop"
    /\ i[s] > Len(KOSPI200_CODES)
    /\ returned' = [returned EXCEPT ![s] = BatchResult(stocks[s])]
    /\ IF dataGone[s]
       THEN UNCHANGED <<data_cache, window>>
       ELSE /\ data_cache' = [data_cache EXCEPT ![DataKey(args[s])] =
                                StoredData(BatchResult(stocks[s]))]
            /\ window' = Opened(window, args[s], BatchResult(stocks[s]))
    /\ pc' = [pc EXCEPT ![s] = "returned"]
    /\ dataGone' = [dataGone EXCEPT ![s] = FALSE]
    /\ UNCHANGED <<price_cache, args, i, stocks, priceGone, slot, error,
                   invalidated, historyVars, harnessVars>>

\* The script run of session s is stopped at one of the st.* calls of the
\* loop or of get_access_token's failure branch (a widget was touched and
\* Streamlit reruns the script): the call never returns, nothing is stored
\* for it, its locks are released, what get_stock_price stored stays.
Interrupt(s) ==
    /\ pc[s] \in {"loop", "fetching"}
    /\ RunOver(s)
    /\ UNCHANGED <<price_cache, data_cache, error, window, invalidated, harnessVars>>

\* main's ranking section on the returned frame: scores[0] and the division
\* by len(scores) need one element at least.
Render(s) ==
    /\ pc[s] = "returned"
    /\ error' = IF Len(returned[s]) = 0 THEN "IndexError" ELSE error
    /\ RunOver(s)
    /\ UNCHANGED <<price_cache, data_cache, window, invalidated, harnessVars>>

\* main, the refresh button pressed in session s: st.cache_data.clear(), then
\* st.rerun().  Both stores are discarded and empty ones take their place;
\* the other session's run goes on with the stores its running calls looked
\* into, and a waiting call will find there what the store held.
Refresh(s) ==
    /\ pc[s] = "idle"
    /\ price_cache' = ClearPriceCache(price_cache)
    /\ data_cache' = ClearDataCache(data_cache)
    /\ dataGone' = [o \in Sessions |-> dataGone[o] \/ pc[o] = "datawait" \/ InBody(o)]
    /\ priceGone' = [o \in Sessions |->
                        priceGone[o] \/ pc[o] \in {"pricewait", "fetching"}]
    /\ slot' = [o \in Sessions |->
                   IF pc[o] = "datawait" /\ ~dataGone[o]
                   THEN data_cache[DataKey(args[o])]
                   ELSE IF pc[o] = "pricewait" /\ ~priceGone[o]
                   THEN price_cache[PriceKey(args[o], KOSPI200_CODES[i[o]])]
                   ELSE slot[o]]
    /\ window' = EmptyDataCache
    /\ invalidated' = (invalidated \/ (Recording /\ data_cache[LiveArgs] # <<>>))
    /\ UNCHANGED <<pc, args, i, stocks, returned, error, historyVars, harnessVars>>

\* TickStep seconds pass.
Tick ==
    /\ price_cache' = Aged(price_cache, StockPriceTTL, TickStep)
    /\ data_cache' = Aged(data_cache, StockDataTTL, TickStep)
    /\ slot' = Aged(slot, StockDataTTL, TickStep)
    /\ window' = AgedWindow(window, data_cache, TickStep)
    /\ invalidated' = \/ invalidated
                       \/ /\ Recording
                          /\ data_cache[LiveArgs] # <<>>
                          /\ data_cache'[LiveArgs] = <<>>
    /\ UNCHANGED <<pc, args, i, stocks, returned, dataGone, priceGone, error,
                   historyVars, harnessVars>>

Next ==
    \/ \E s \in Sessions : \E cr \in Sidebar(s), c \in BOOLEAN :
            Analyze(s, cr[1], cr[2], c)
    \/ \E s \in Sessions : DataAcquire(s)
    \/ \E s \in Sessions : FetchCached(s)
    \/ \E s \in Sessions : FetchMiss(s)
    \/ \E s \in Sessions : PriceAcquire(s)
    \/ \E s \in Sessions, t \in BatchTokenResponses, r \in BatchQuoteResponses :
            FetchLive(s, t, r)
    \/ \E s \in Sessions : Finish(s)
    \/ \E s \in Sessions : Interrupt(s)
    \/ \E s \in Sessions : Render(s)
    \/ \E s \in Sessions : Refresh(s)
    \/ Tick

Spec == Init /\ [][Next]_vars

\* The same program, with the history of session "mine" recorded.
HistoryInit ==
    /\ CacheIdle
    /\ fn = "observed"
    /\ input = <<>>
    /\ output = <<>>

HistorySpec == HistoryInit /\ [][Next]_vars

\* The loop of session s has walked the whole universe: its call computed
\* its result from a batch rather than taking it from the store.
BatchDone(s) == i[s] > Len(KOSPI200_CODES)

(***************************************************************************)
(* Properties of the cache machine.                                        *)
(***************************************************************************)
CodesOf(seq) == [n \in 1..Len(seq) |-> seq[n].code]

\* seq holds live snapshots only, of distinct codes, in universe order.
LiveSubsequence(seq) ==
    /\ \A n \in 1..Len(seq) : seq[n].origin = "live"
    /\ CodesOf(seq) =
         SelectSeq(KOSPI200_CODES, LAMBDA c : \E n \in 1..Len(seq) : seq[n].code = c)

\* C1: what get_real_time_stock_data returns (to either session) is never a
\* mixture: it is the sample dataset exactly, or live snapshots only (of a
\* subset of the universe, in universe order).
C1_NeverMixed ==
    \A s \in Sessions :
        pc[s] = "returned" =>
            (returned[s] = SampleData \/ LiveSubsequence(returned[s]))

\* C1 witness: a batch with one failed and one successful fetch returned a
\* proper, all-live subset.
C1_Witness ==
    \E s \in Sessions :
        /\ pc[s] = "returned"
        /\ BatchDone(s)
        /\ returned[s] = stocks[s]
        /\ Len(returned[s]) >= 1
        /\ Len(returned[s]) < Len(KOSPI200_CODES)
        /\ LiveSubsequence(returned[s])

\* C2: no failure is fatal: a call whose arguments do not take the live
\* branch (live mode off, or a credential empty), and a batch that collected
\* nothing, return the sample dataset verbatim; the returned sequence is
\* never empty, so main's ranking section never raises.
C2_FallbackNeverFatal ==
    /\ error = "none"
    /\ \A s \in Sessions :
        pc[s] = "returned" =>
            /\ Len(returned[s]) >= 1
            /\ ~LiveBranch(args[s]) => returned[s] = SampleData
            /\ (BatchDone(s) /\ stocks[s] = <<>>) => returned[s] = SampleData

\* C2 witness: every fetch of a batch failed and the sample dataset came back.
C2_Witness ==
    \E s \in Sessions :
        /\ pc[s] = "returned"
        /\ LiveBranch(args[s])
        /\ BatchDone(s)
        /\ stocks[s] = <<>>
        /\ returned[s] = SampleData

\* C3: a call made inside the validity window of an earlier computed call
\* with the same arguments, with no refresh between, returns that call's
\* sequence, and it does so in the step of the call itself: it neither waits
\* nor enters the batch loop, where alone requests are issued, and no
\* get_stock_price call is made (the store of that function stays as it is).
C3_SecondCallFromCache ==
    [][\A s \in Sessions :
          (pc[s] = "idle" /\ pc'[s] # "idle" /\ window[args'[s]] # <<>>) =>
              /\ pc'[s] = "returned"
              /\ returned'[s] = window[args'[s]][1].value
              /\ i'[s] = 1
              /\ stocks'[s] = <<>>
              /\ price_cache' = price_cache]_vars

\* C3 witness: the only session at work made a live call inside the window
\* of an earlier batch and got that batch's sequence, a proper live subset,
\* without a batch of its own.
C3_Witness ==
    \E s \in Sessions :
        /\ pc[s] = "returned"
        /\ \A o \in Sessions \ {s} : pc[o] = "idle"
        /\ args[s] = LiveArgs
        /\ ~BatchDone(s)
        /\ window[LiveArgs] # <<>>
        /\ returned[s] = window[LiveArgs][1].value
        /\ Len(returned[s]) = 1
        /\ LiveSubsequence(returned[s])

\* C4, the claim as stated: the first live call after the stored result was
\* invalidated (expired or cleared by the refresh button) is recomputed and
\* issues at least one request: neither store answers it on its own.
C4_FreshFetchAfterInvalidation ==
    (afterInval /\ pc["mine"] = "returned") =>
        /\ via = "batch"
        /\ netCalls

\* C10, the claim as stated: no iteration of any batch loop is answered by a
\* remembered failure; every code that the loop has passed got its own real
\* fetch attempt.
C10_NoRememberedFailure ==
    via = "batch" => ~remembered

(***************************************************************************)
(* calculate_stock_score.  A running result is [score, details]; each rule *)
(* is one "if" block of the function, applied in the function's order.     *)
(* The labels are the English renderings of the function's Korean ones.    *)
(***************************************************************************)
Add(r, points, label) ==
    [score |-> r.score + points, details |-> Append(r.details, label)]

Abs(x) == IF x < 0 THEN -x ELSE x

rule_uptrend(r, stock, criteria) ==
    IF criteria.uptrend /\ stock.change > 0
    THEN Add(r, 40, "uptrend entry")
    ELSE r

rule_strong_uptrend(r, stock, criteria) ==
    IF criteria.strong_uptrend
    THEN IF stock.change > 300 THEN Add(r, 30, "strong uptrend (3pt)")
         ELSE IF stock.change > 150 THEN Add(r, 20, "strong uptrend (2pt)")
         ELSE r
    ELSE r

rule_volume_increase(r, stock, criteria) ==
    IF criteria.volume_increase
    THEN IF stock.volume > 5000000 THEN Add(r, 20, "volume increase (2pt)")
         ELSE IF stock.volume > 2000000 THEN Add(r, 10, "volume increase (1pt)")
         ELSE r
    ELSE r

rule_price_range_Exclusive(r, stock, criteria) ==
    IF criteria.price_range
    THEN IF 50000 < stock.price /\ stock.price < 500000
         THEN Add(r, 15, "fair price band")
         ELSE r
    ELSE r

rule_price_range(r, stock, criteria) ==
    IF criteria.price_range
    THEN IF 50000 <= stock.price /\ stock.price <= 500000
         THEN Add(r, 15, "fair price band")
         ELSE r
    ELSE r

rule_daily_gain(r, stock, criteria) ==
    IF criteria.daily_gain /\ stock.change > 0
    THEN Add(r, 10, "prior-day gain")
    ELSE r

rule_high_volatility_OneTier(r, stock, criteria) ==
    IF criteria.high_volatility
    THEN IF Abs(stock.change) > 500 THEN Add(r, -10, "high volatility (-1pt)")
         ELSE r
    ELSE r

rule_high_volatility(r, stock, criteria) ==
    IF criteria.high_volatility
    THEN IF Abs(stock.change) > 500 THEN Add(r, -10, "high volatility (-1pt)")
         ELSE IF Abs(stock.change) > 300 THEN Add(r, -5, "high volatility (-0.5pt)")
         ELSE r
    ELSE r

calculate_stock_score(stock, criteria) ==
    LET r0 == [score |-> 0, details |-> <<>>]
        r1 == rule_uptrend(r0, stock, criteria)
        r2 == rule_strong_uptrend(r1, stock, criteria)
        r3 == rule_volume_increase(r2, stock, criteria)
        r4 == rule_price_range(r3, stock, criteria)
        r5 == rule_daily_gain(r4, stock, criteria)
        r6 == rule_high_volatility(r5, stock, criteria)
    IN r6

(***************************************************************************)
(* ScoreSpec: calculate_stock_score applied to one drawn snapshot and one  *)
(* of the 64 rule selections.  The drawn values sit on and next to every   *)
(* threshold of the function.                                              *)
(***************************************************************************)
ScoreChanges == {-501, -500, -301, -300, 0, 1, 150, 151, 300, 301, 500, 501}
ScoreVolumes == {2000000, 2000001, 5000000, 5000001}
ScorePrices == {49999, 50000, 500000, 500001}

ScoreStocks ==
    {Snapshot("005930", J("str_name", "A"), p, c, v, 1, "live") :
        p \in ScorePrices, c \in ScoreChanges, v \in ScoreVolumes}

Criteria ==
    [uptrend : BOOLEAN, strong_uptrend : BOOLEAN, volume_increase : BOOLEAN,
     price_range : BOOLEAN, daily_gain : BOOLEAN, high_volatility : BOOLEAN]

AllEnabled ==
    [uptrend |-> TRUE, strong_uptrend |-> TRUE, volume_increase |-> TRUE,
     price_range |-> TRUE, daily_gain |-> TRUE, high_volatility |-> TRUE]

ScoreInit ==
    /\ CacheIdle
    /\ fn = "drawn"
    /\ input \in [stock : ScoreStocks, criteria : Criteria]
    /\ output = <<>>

ScoreStep ==
    /\ fn = "drawn"
    /\ output' = calculate_stock_score(input.stock, input.criteria)
    /\ fn' = "scored"
    /\ UNCHANGED <<input, cacheVars>>

ScoreNext == ScoreStep

ScoreSpec == ScoreInit /\ [][ScoreNext]_vars

\* The six-rule table of the specification, as rows
\* [on: the rule is enabled, fires: its condition, points, label];
\* the two tiers of a tiered rule are two rows with disjoint conditions.
RuleTable(stock, criteria) ==
    << [on |-> criteria.uptrend, fires |-> stock.change > 0,
        points |-> 40, label |-> "uptrend entry"],
       [on |-> criteria.strong_uptrend, fires |-> stock.change > 300,
        points |-> 30, label |-> "strong uptrend (3pt)"],
       [on |-> criteria.strong_uptrend,
        fires |-> ~(stock.change > 300) /\ stock.change > 150,
        points |-> 20, label |-> "strong uptrend (2pt)"],
       [on |-> criteria.volume_increase, fires |-> stock.volume > 5000000,
        points |-> 20, label |-> "volume increase (2pt)"],
       [on |-> criteria.volume_increase,
        fires |-> ~(stock.volume > 5000000) /\ stock.volume > 2000000,
        points |-> 10, label |-> "volume increase (1pt)"],
       [on |-> criteria.price_range,
        fires |-> stock.price \in 50000..500000,
        points |-> 15, label |-> "fair price band"],
       [on |-> criteria.daily_gain, fires |-> stock.change > 0,
        points |-> 10, label |-> "prior-day gain"],
       [on |-> criteria.high_volatility,
        fires |-> stock.change > 500 \/ stock.change < -500,
        points |-> -10, label |-> "high volatility (-1pt)"],
       [on |-> criteria.high_volatility,
        fires |-> ~(stock.change > 500 \/ stock.change < -500)
                  /\ (stock.change > 300 \/ stock.change < -300),
        points |-> -5, label |-> "high volatility (-0.5pt)"] >>

Fired(table) == SelectSeq(table, LAMBDA row : row.on /\ row.fires)

RECURSIVE SumPoints(_)
SumPoints(rows) ==
    IF rows = <<>> THEN 0 ELSE rows[1].points + SumPoints(Tail(rows))

Labels(rows) == [n \in 1..Len(rows) |-> rows[n].label]

\* C6: for every snapshot and each of the 64 rule selections the function
\* returns the sum of the fired rows of the table and their labels in table
\* order; with every rule disabled that is (0, <<>>).
C6_ScoreIsTable ==
    fn = "scored" =>
        LET rows == Fired(RuleTable(input.stock, input.criteria)) IN
        /\ output.score = SumPoints(rows)
        /\ output.details = Labels(rows)
        /\ (\A f \in DOMAIN input.criteria : ~input.criteria[f]) =>
                output = [score |-> 0, details |-> <<>>]

\* C6 witness: price on the inclusive upper bound 500,000, rules 1 and 5
\* stacking to +5, the upper tiers of rules 2 and 3: 4 + 3 + 2 + 1.5 + 1.
C6_Witness ==
    /\ fn = "scored"
    /\ input.stock.price = 500000
    /\ ~input.criteria.high_volatility
    /\ output.score = 115
    /\ Len(output.details) = 5

\* C7 as stated: with all six rules enabled no snapshot scores more than
\* 11.5, and 11.5 is attained: some snapshot scores exactly 11.5.
C7_MaxIsElevenAndHalf ==
    (fn = "scored" /\ input.criteria = AllEnabled) =>
        /\ output.score <= 115
        /\ \E st \in ScoreStocks :
              calculate_stock_score(st, AllEnabled).score = 115

\* C7 amended: with all six rules enabled no snapshot scores more than 11.0
\* (the +3 tier needs a change above 3, which costs at least 0.5 of
\* volatility penalty).
C7_MaxIsEleven ==
    (fn = "scored" /\ input.criteria = AllEnabled) => output.score <= 110

\* C7 witness: a snapshot that scores exactly 11.0 with all six rules enabled.
C7_Witness ==
    /\ fn = "scored"
    /\ input.criteria = AllEnabled
    /\ output.score = 110

(***************************************************************************)
(* FetchSpec: get_stock_price applied to one drawn provider exchange.      *)
(***************************************************************************)
FetchTokenResponses ==
    { TokenOk, TokenRejected,
      TokenResponse(TRUE, 0, Missing),           \* requests.post raised
      TokenResponse(FALSE, 200, Missing),        \* 200 without access_token
      TokenResponse(FALSE, 200, J("str", "")) }  \* 200 with an empty token

FetchNames == {Missing, J("null", 0), J("str_name", "A")}
FetchPrices ==
    {Missing, J("null", 0), J("str_junk", 0), J("str_int", 71000),
     J("str_dec", 7100050), J("num_dec", 7100099)}
FetchChanges ==
    {Missing, J("null", 0), J("str_junk", 0), J("str_dec", -140), J("str_int", 3)}
FetchVolumes == {Missing, J("str_junk", 0), J("str_int", 15000000)}
FetchCaps ==
    {Missing, J("null", 0), J("str_junk", 0), J("str_int", 99999999),
     J("str_int", 2130000000)}

FetchQuoteResponses ==
    { QuoteResponse(TRUE, 0, "not_json", NoPayload),      \* requests.get raised
      QuoteServerError,
      QuoteResponse(FALSE, 200, "not_json", NoPayload),
      QuoteResponse(FALSE, 200, "no_output", NoPayload) }
    \cup
    { QuoteResponse(FALSE, 200, "output", Payload(n, p, c, v, m)) :
        n \in FetchNames, p \in FetchPrices, c \in FetchChanges,
        v \in FetchVolumes, m \in FetchCaps }

\* The call is made by session "mine", from the first iteration of its batch
\* loop.
FetchInit ==
    /\ CacheIdle
    /\ fn = "drawn"
    /\ input \in [app_key : {"K"}, app_secret : {"S"}, code : {KOSPI200_CODES[1]},
                  token : FetchTokenResponses, resp : FetchQuoteResponses]
    /\ output = <<>>

\* One call of the cached get_stock_price begins: nothing is stored for its
\* arguments, the call takes the key's lock, the body starts and waits for
\* the provider.
FetchLookup ==
    LET a == <<input.app_key, input.app_secret, TRUE>>
        k == PriceKey(a, input.code)
    IN
    /\ fn = "drawn"
    /\ pc["mine"] = "idle"
    /\ ~CacheHit(price_cache, k, StockPriceTTL)
    /\ ~PriceLockHeld("mine", k)
    /\ pc' = [pc EXCEPT !["mine"] = "fetching"]
    /\ args' = [args EXCEPT !["mine"] = a]
    /\ fn' = "waiting"
    /\ UNCHANGED <<input, output, price_cache, data_cache, i, stocks, returned,
                   dataGone, priceGone, slot, error, window, invalidated,
                   historyVars>>

\* The provider answered: the body returns and st.cache_data stores what it
\* returned into the store the call looked into (a discarded one when a
\* refresh came meanwhile).
FetchStep ==
    LET k == PriceKey(args["mine"], input.code)
        stock_data == get_stock_price(input.code, input.token, input.resp)
    IN
    /\ fn = "waiting"
    /\ pc["mine"] = "fetching"
    /\ output' = stock_data
    /\ price_cache' = IF priceGone["mine"] THEN price_cache
                      ELSE [price_cache EXCEPT ![k] = StoredPrice(stock_data)]
    /\ fn' = "fetched"
    /\ pc' = [pc EXCEPT !["mine"] = "idle"]
    /\ args' = [args EXCEPT !["mine"] = <<"", "", FALSE>>]
    /\ dataGone' = [dataGone EXCEPT !["mine"] = FALSE]
    /\ priceGone' = [priceGone EXCEPT !["mine"] = FALSE]
    /\ UNCHANGED <<input, data_cache, i, stocks, returned, slot, error,
                   window, invalidated, historyVars>>

\* While the call waits, and after it, a session may press the refresh
\* button and time passes.
FetchNext ==
    \/ FetchLookup
    \/ FetchStep
    \/ \E s \in Sessions : Refresh(s)
    \/ Tick

FetchSpec == FetchInit /\ [][FetchNext]_vars

IntParseable(x) == x.t \in {"str_int", "num_int", "num_dec"}
FloatParseable(x) == x.t \in {"str_int", "str_dec", "num_int", "num_dec"}

\* The exchange gave no usable answer at all.
NoAnswer(token, resp) ==
    \/ token.raised
    \/ token.status # 200
    \/ token.access_token \in {Missing, J("str", "")}
    \/ resp.raised
    \/ resp.status # 200
    \/ resp.body # "output"

\* C5 as stated: the result is a complete snapshot or None, and it is None
\* whenever a required field (name, price, percent change, volume, market
\* capitalization) is missing or does not parse as its type.
C5_AnyMissingFieldIsAbsent ==
    fn = "fetched" =>
        LET d == input.resp.output IN
        (\/ NoAnswer(input.token, input.resp)
         \/ d.hts_kor_isnm = Missing
         \/ ~IntParseable(d.stck_prpr)
         \/ ~FloatParseable(d.prdy_ctrt)
         \/ ~IntParseable(d.acml_vol)
         \/ ~IntParseable(d.hts_avls)) => output = None

\* C5 amended: the result is None exactly when there is no usable answer,
\* when name, price, percent change or volume is missing, when price or
\* volume does not parse as an integer or percent change as a real, or when
\* market capitalization is present and does not parse as an integer.
\* Otherwise it is the snapshot of the payload's values; a missing market
\* capitalization is defaulted to 0.
C5_CompleteOrAbsent ==
    fn = "fetched" =>
        LET d == input.resp.output
            absent ==
                \/ NoAnswer(input.token, input.resp)
                \/ d.hts_kor_isnm = Missing
                \/ ~IntParseable(d.stck_prpr)
                \/ ~FloatParseable(d.prdy_ctrt)
                \/ ~IntParseable(d.acml_vol)
                \/ (d.hts_avls # Missing /\ ~IntParseable(d.hts_avls))
        IN IF absent THEN output = None
           ELSE output =
                  Snapshot(input.code, d.hts_kor_isnm, PyInt(d.stck_prpr).v,
                           PyFloat(d.prdy_ctrt).v, PyInt(d.acml_vol).v,
                           IF d.hts_avls = Missing THEN 0
                           ELSE PyInt(d.hts_avls).v \div MarketCapUnit,
                           "live")

\* C5 witness: a payload without market capitalization gave a snapshot with
\* market_cap 0.
C5_Witness ==
    /\ fn = "fetched"
    /\ input.resp.output.hts_avls = Missing
    /\ output # None
    /\ output.market_cap = 0
    /\ output.price = 71000

(***************************************************************************)
(* main's ranking step: scores.sort(key=score, reverse=True), then         *)
(* scores[:num_recommendations].                                           *)
(***************************************************************************)
Max(a, b) == IF a > b THEN a ELSE b

RECURSIVE InsertDesc_Unstable(_, _)
InsertDesc_Unstable(sorted, e) ==
    IF sorted = <<>> THEN <<e>>
    ELSE IF Head(sorted).score > e.score
         THEN <<Head(sorted)>> \o InsertDesc_Unstable(Tail(sorted), e)
         ELSE <<e>> \o sorted

\* Where list.sort(reverse=True) puts e among the elements before it: behind
\* every element whose key is not smaller (the sort is stable, also reversed).
RECURSIVE InsertDesc(_, _)
InsertDesc(sorted, e) ==
    IF sorted = <<>> THEN <<e>>
    ELSE IF Head(sorted).score >= e.score
         THEN <<Head(sorted)>> \o InsertDesc(Tail(sorted), e)
         ELSE <<e>> \o sorted

RECURSIVE list_sort_reverse(_)
list_sort_reverse(list) ==
    IF list = <<>> THEN <<>>
    ELSE InsertDesc(list_sort_reverse(SubSeq(list, 1, Len(list) - 1)),
                    list[Len(list)])

\* Python's list[:n]: a negative n counts from the end.
py_slice(list, n) ==
    IF n >= 0 THEN SubSeq(list, 1, Min(n, Len(list)))
    ELSE SubSeq(list, 1, Max(0, Len(list) + n))

main_rank(scores, num_recommendations) ==
    py_slice(list_sort_reverse(scores), num_recommendations)

\* "if scores[0]['score'] > 0" between the sort and the slice: scores[0]
\* raises IndexError on an empty list.
main_rank_raises(scores) == list_sort_reverse(scores) = <<>>

\* Scores calculate_stock_score can produce, in tenths.
RankScores == {-5, 0, 55}

\* Scored instruments: stock is the position in the input list.
RankLists ==
    UNION { { [n \in 1..len |-> [stock |-> n, score |-> f[n]]] :
                f \in [1..len -> RankScores] } : len \in 1..MaxListLen }

\* Everything of the cache machine but error.
rankFrame == <<price_cache, data_cache, pc, args, i, stocks, returned,
               dataGone, priceGone, slot, window,
               invalidated, historyVars>>

RankStep ==
    /\ fn = "drawn"
    /\ IF main_rank_raises(input.scores)
       THEN /\ error' = "IndexError"
            /\ fn' = "raised"
            /\ UNCHANGED output
       ELSE /\ output' = [ranked |-> main_rank(input.scores, input.topN),
                          again |-> <<>>]
            /\ fn' = "ranked"
            /\ UNCHANGED error
    /\ UNCHANGED <<input, rankFrame>>

\* The same step on its own output; an empty output makes it raise.
RerankStep ==
    /\ fn = "ranked"
    /\ IF main_rank_raises(output.ranked)
       THEN /\ error' = "IndexError"
            /\ fn' = "raised"
            /\ UNCHANGED output
       ELSE /\ output' = [output EXCEPT !.again = main_rank(output.ranked, input.topN)]
            /\ fn' = "reranked"
            /\ UNCHANGED error
    /\ UNCHANGED <<input, rankFrame>>

RankNext == RankStep \/ RerankStep

\* RankSpec: the requested count as main's slider gives it, 1 and up.
RankInit ==
    /\ CacheIdle
    /\ fn = "drawn"
    /\ input \in [scores : RankLists, topN : 1..MaxTopN]
    /\ output = <<>>

RankSpec == RankInit /\ [][RankNext]_vars

Elems(seq) == {seq[n] : n \in 1..Len(seq)}

\* seq is in non-increasing score order, equal scores in input order.
RankedOrder(seq) ==
    \A a, b \in 1..Len(seq) :
        a < b => \/ seq[a].score > seq[b].score
                 \/ (seq[a].score = seq[b].score /\ seq[a].stock < seq[b].stock)

\* C8: for a positive count the step yields min(topN, len) elements of the
\* list, the best ones, in non-increasing score order with equal scores in
\* their input order; the step applied to its own output changes nothing,
\* and neither application raises.
C8_RankSortedStableIdempotent ==
    (fn # "drawn" /\ input.topN > 0) =>
        /\ fn \in {"ranked", "reranked"}
        /\ error = "none"
        /\ Len(output.ranked) = Min(input.topN, Len(input.scores))
        /\ Elems(output.ranked) \subseteq Elems(input.scores)
        /\ RankedOrder(output.ranked)
        /\ \A e \in Elems(input.scores) \ Elems(output.ranked) :
             \A r \in Elems(output.ranked) : r.score >= e.score
        /\ fn = "reranked" => output.again = output.ranked

\* C8 witness: three instruments, the first and the last tied on the top
\* score, two requested: both come back, in input order, and again so.
C8_Witness ==
    /\ fn = "reranked"
    /\ input.topN = 2
    /\ Len(input.scores) = 3
    /\ input.scores[1].score = 55
    /\ input.scores[2].score = 0
    /\ input.scores[3].score = 55
    /\ output.ranked = <<input.scores[1], input.scores[3]>>
    /\ output.again = output.ranked

====
